---- MODULE Spec2Model ----
(***************************************************************************)
(* Model of the Telegram bot of keggarcia/TFM: the message pipeline of     *)
(* src/bot.py (on_voice, echo_text, on_setlang, error_handler), the        *)
(* message splitter, and the helpers of src/utils that it calls.           *)
(*                                                                         *)
(* Strings.  A Python str is modelled as a run-length encoded text: a      *)
(* sequence of runs [ch |-> c, n |-> k] standing for k >= 1 copies of the  *)
(* character c, adjacent runs having different characters.  The encoding   *)
(* keeps lengths exact, so that the platform limit keeps its real value.   *)
(***************************************************************************)
EXTENDS Integers, Sequences, FiniteSets, TLC

VARIABLES
    USER_LANG,        \* utils/i18n.py USER_LANG: user id -> "es" | "en" (partial)
    polling,          \* BotApp.run: the application is polling for updates
    exception_logged, \* error_handler has logged an exception
    pc,               \* where the message handler in flight is
    update,           \* the update the message handler is handling
    locals,           \* the local variables of the message handler
    pending,          \* the argument of the reply_text call being awaited
    out,              \* the messages delivered for the update in flight
    calls,            \* the capability calls made for the update in flight
    raised_at,        \* where the message handler in flight raised
    cb,               \* the on_setlang callback in flight
    s_text,           \* _split_telegram_message: text
    s_limit,          \* _split_telegram_message: limit
    s_parts,          \* _split_telegram_message: parts
    s_pc,             \* _split_telegram_message: "idle" | "loop" | "returned"
    s_input,          \* the text _split_telegram_message was called with
    callee,           \* the utils function called on its own ("none" when none is)
    args,             \* the arguments of that call
    result            \* its outcome: [done |-> FALSE] until it returns

vars == <<USER_LANG, polling, exception_logged, pc, update, locals, pending, out,
          calls, raised_at, cb, s_text, s_limit, s_parts, s_pc, s_input,
          callee, args, result>>

botvars == <<USER_LANG, polling, exception_logged, pc, update, locals, pending,
             out, calls, raised_at, cb>>

splitvars == <<s_text, s_limit, s_parts, s_pc, s_input>>

callvars == <<callee, args, result>>

\* what a step of a handler leaves alone
othervars == <<splitvars, callvars>>

(***************************************************************************)
(* Bounds of the model.                                                    *)
(***************************************************************************)
\* longest text given to the splitter when it is checked on its own
MaxLen == 5
\* largest limit given to the splitter when it is checked on its own
MaxLimit == 3

(***************************************************************************)
(* Python values and str operations.                                       *)
(***************************************************************************)
\* None where a dict key or a flag is expected
None == "None"

\* None where a str is expected (no str has a run of no characters)
NoneStr == <<[ch |-> "None", n |-> 0]>>

Min(a, b) == IF a <= b THEN a ELSE b

Max(a, b) == IF a >= b THEN a ELSE b

\* str.isspace characters among the characters of the model
Whitespace == {" ", "\n", "\t"}

Run(c, k) == [ch |-> c, n |-> k]

\* the text made of k copies of c
Rep(c, k) == IF k = 0 THEN <<>> ELSE <<Run(c, k)>>

\* s + c for a text s and one character c
AddChar(s, c) ==
    IF s # <<>> /\ s[Len(s)].ch = c
    THEN [s EXCEPT ![Len(s)].n = @ + 1]
    ELSE Append(s, Run(c, 1))

\* the text of a sequence of characters
RECURSIVE Encode(_)
Encode(chars) ==
    IF chars = <<>> THEN <<>>
    ELSE AddChar(Encode(SubSeq(chars, 1, Len(chars) - 1)), chars[Len(chars)])

\* a + b
Concat(a, b) ==
    IF a # <<>> /\ b # <<>> /\ a[Len(a)].ch = Head(b).ch
    THEN SubSeq(a, 1, Len(a) - 1) \o <<Run(Head(b).ch, a[Len(a)].n + Head(b).n)>>
         \o Tail(b)
    ELSE a \o b

\* len(text)
RECURSIVE len(_)
len(text) == IF text = <<>> THEN 0 ELSE Head(text).n + len(Tail(text))

\* text[:cut], for cut >= 0
RECURSIVE SliceTo(_, _)
SliceTo(text, cut) ==
    IF text = <<>> \/ cut <= 0 THEN <<>>
    ELSE IF Head(text).n <= cut
         THEN <<Head(text)>> \o SliceTo(Tail(text), cut - Head(text).n)
         ELSE <<Run(Head(text).ch, cut)>>

\* text[cut:], for cut >= 0
RECURSIVE SliceFrom(_, _)
SliceFrom(text, cut) ==
    IF text = <<>> \/ cut <= 0 THEN text
    ELSE IF Head(text).n <= cut
         THEN SliceFrom(Tail(text), cut - Head(text).n)
         ELSE <<Run(Head(text).ch, Head(text).n - cut)>> \o Tail(text)

\* text.lstrip()
RECURSIVE lstrip(_)
lstrip(text) ==
    IF text # <<>> /\ Head(text).ch \in Whitespace THEN lstrip(Tail(text))
    ELSE text

\* text.rstrip()
RECURSIVE rstrip(_)
rstrip(text) ==
    IF text # <<>> /\ text[Len(text)].ch \in Whitespace
    THEN rstrip(SubSeq(text, 1, Len(text) - 1))
    ELSE text

\* text.strip()
strip(text) == lstrip(rstrip(text))

\* the highest index of character sub in text[start:end] at or after offset
\* off of the whole string, text being what is left of it from off on; -1 if none
RECURSIVE rfindAt(_, _, _, _, _)
rfindAt(text, sub, start, end, off) ==
    IF text = <<>> THEN -1
    ELSE LET r == Head(text)
             later == rfindAt(Tail(text), sub, start, end, off + r.n)
             hi == Min(off + r.n, end) - 1
         IN IF later # -1 THEN later
            ELSE IF r.ch = sub /\ hi >= Max(off, start) THEN hi
            ELSE -1

\* text.rfind(sub, start, end), for a one-character sub and 0 <= start <= end
rfind(text, sub, start, end) == rfindAt(text, sub, start, end, 0)

(***************************************************************************)
(* utils/config.py                                                         *)
(***************************************************************************)
TELEGRAM_MAX_MSG == 4096

(***************************************************************************)
(* BotApp._split_telegram_message                                          *)
(***************************************************************************)
\* a hard cut one past the limit
SplitCutOffByOne(text, limit) ==
    LET nl == rfind(text, "\n", 0, limit)
        sp == rfind(text, " ", 0, limit)
    IN IF nl # -1 THEN nl ELSE IF sp # -1 THEN sp ELSE limit + 1

\* the cut of one loop iteration
SplitCut(text, limit) ==
    LET nl == rfind(text, "\n", 0, limit)
        sp == rfind(text, " ", 0, limit)
    IN IF nl # -1 THEN nl ELSE IF sp # -1 THEN sp ELSE limit

\* a remainder that starts one character after the cut
SplitRestSkipsOne(text, limit) ==
    lstrip(SliceFrom(text, SplitCut(text, limit) + 1))

\* a remainder that keeps its leading whitespace
SplitRestKeepsWhitespace(text, limit) == SliceFrom(text, SplitCut(text, limit))

\* the text left after one loop iteration
SplitRest(text, limit) == lstrip(SliceFrom(text, SplitCut(text, limit)))

\* the while loop and the tail, from the loop's state (parts, text); the
\* text an iteration leaves is assigned once, as a value
RECURSIVE SplitLoop(_, _, _)
SplitLoop(parts, text, limit) ==
    IF len(text) > limit
    THEN CHOOSE parts_out \in
             {SplitLoop(Append(parts, SliceTo(text, SplitCut(text, limit))),
                        rest, limit) : rest \in {SplitRest(text, limit)}} : TRUE
    ELSE IF text # <<>> THEN Append(parts, text) ELSE parts

split_telegram_message(text, limit) == SplitLoop(<<>>, text, limit)

(***************************************************************************)
(* The splitter on its own: one loop iteration per step.                   *)
(***************************************************************************)
Alphabet == {"a", " ", "\n", "\t"}

SplitTexts ==
    {Encode(chars) : chars \in UNION {[1..k -> Alphabet] : k \in 0..MaxLen}}

SplitIdle ==
    /\ s_text = <<>>
    /\ s_limit = 1
    /\ s_parts = <<>>
    /\ s_pc = "idle"
    /\ s_input = <<>>

SplitCall ==
    /\ s_text \in SplitTexts
    /\ s_limit \in 1..MaxLimit
    /\ s_parts = <<>>
    /\ s_pc = "loop"
    /\ s_input = s_text

\* one iteration of the while loop
SplitIter ==
    /\ s_pc = "loop"
    /\ len(s_text) > s_limit
    /\ s_parts' = Append(s_parts, SliceTo(s_text, SplitCut(s_text, s_limit)))
    /\ s_text' = SplitRest(s_text, s_limit)
    /\ UNCHANGED <<s_limit, s_pc, s_input>>
    /\ UNCHANGED <<botvars, callvars>>

\* the loop exit, the tail and the return
SplitReturn ==
    /\ s_pc = "loop"
    /\ ~(len(s_text) > s_limit)
    /\ s_parts' = IF s_text # <<>> THEN Append(s_parts, s_text) ELSE s_parts
    /\ s_pc' = "returned"
    /\ UNCHANGED <<s_text, s_limit, s_input>>
    /\ UNCHANGED <<botvars, callvars>>

SplitNext == SplitIter \/ SplitReturn

\* no utils function is called on its own
CallIdle ==
    /\ callee = "none"
    /\ args = <<>>
    /\ result = [done |-> FALSE]

(***************************************************************************)
(* utils/i18n.py.  A template is a sequence of pieces: Lit(s) is literal   *)
(* text (written in ASCII, an emoji as "#"), Arg(k) the placeholder {k}.   *)
(* The long command texts are abridged to their first sentence.            *)
(***************************************************************************)
Lit(s) == [lit |-> s]

Arg(k) == [arg |-> k]

I18N ==
    [welcome |->
        [en |-> <<Lit("# Hi! Send me a *voice* or *text* message")>>,
         es |-> <<Lit("# Hola! Enviame una *nota de voz* o un *mensaje de texto*")>>],
     help |->
        [en |-> <<Lit("# Commands:")>>,
         es |-> <<Lit("# Comandos:")>>],
     about |->
        [en |-> <<Lit("# Demo: python-telegram-bot v21 + faster-whisper (ASR)")>>,
         es |-> <<Lit("# Demo: python-telegram-bot v21 + faster-whisper (ASR es)")>>],
     choose_lang |->
        [en |-> <<Lit("Please choose the bot language:")>>,
         es |-> <<Lit("Elige el idioma del bot:")>>],
     lang_set |->
        [en |-> <<Lit("# Language set to English.")>>,
         es |-> <<Lit("# Idioma configurado a Espanol.")>>],
     unknown_cmd |->
        [en |-> <<Lit("Unknown command. Try /help #")>>,
         es |-> <<Lit("Comando no reconocido. Prueba /help #")>>],
     no_transcription |->
        [en |-> <<Lit("# Could not transcribe anything. Please try again.")>>,
         es |-> <<Lit("# No pude transcribir nada. Por favor, intentalo de nuevo.")>>],
     analysis_skipped |->
        [en |-> <<Lit("not processed (analysis skipped).")>>,
         es |-> <<Lit("no procesadas (se omite analisis).")>>],
     translation_skipped |->
        [en |-> <<Lit("## Not English/Spanish, translation skipped.")>>,
         es |-> <<Lit("## No es ingles/espanol; se omitio la traduccion.")>>],
     transcription_header |->
        [en |-> <<Lit("# Transcription "), Arg("flag"), Lit(" (lang: "), Arg("lang"),
                  Lit(", confidence: "), Arg("conf"), Lit("%):\n")>>,
         es |-> <<Lit("# Transcripcion "), Arg("flag"), Lit(" (idioma: "), Arg("lang"),
                  Lit(", confianza: "), Arg("conf"), Lit("%):\n")>>],
     emotion_header |->
        [en |-> <<Lit("# Detected emotion(s): "), Arg("emo")>>,
         es |-> <<Lit("# Emocion(es) detectada(s): "), Arg("emo")>>],
     you_wrote |->
        [en |-> <<Lit("# You wrote "), Arg("flag"), Lit(" ("), Arg("lang"), Lit("):\n")>>,
         es |-> <<Lit("# Has escrito "), Arg("flag"), Lit(" (idioma: "), Arg("lang"),
                  Lit("):\n")>>],
     translation_header |->
        [en |-> <<Lit("# Translation "), Arg("flag"), Lit(" ("), Arg("src"), Lit("->"),
                  Arg("tgt"), Lit("):\n")>>,
         es |-> <<Lit("# Traduccion "), Arg("flag"), Lit(" ("), Arg("src"), Lit("->"),
                  Arg("tgt"), Lit("):\n")>>]]

\* s.lower(), on the letters of the model's language codes
lower(s) ==
    [i \in DOMAIN s |->
        [s[i] EXCEPT !.ch = CASE @ = "E" -> "e" [] @ = "N" -> "n" [] @ = "S" -> "s"
                              [] OTHER -> @]]

\* s.startswith(prefix)
startswith(s, prefix) == SliceTo(s, len(prefix)) = prefix

Str(chars) == Encode(chars)

\* d.get(k), d a dict modelled as a function
Get(d, k) == IF k \in DOMAIN d THEN d[k] ELSE None

\* template.format(**kwargs): each placeholder replaced by its argument's value
format(tmpl, kwargs) ==
    [i \in DOMAIN tmpl |->
        IF "arg" \in DOMAIN tmpl[i] THEN [val |-> kwargs[tmpl[i].arg]]
        ELSE tmpl[i]]

\* x or "", for a str x that may be None
OrEmpty(x) == IF x = NoneStr THEN <<>> ELSE x

\* a resolution that looks at the locale hint before the stored preference
t_lang_hint_first(user_lang, user_id, kwargs) ==
    LET lang_code == lower(OrEmpty(IF "telegram_lang_code" \in DOMAIN kwargs
                                   THEN kwargs.telegram_lang_code
                                   ELSE <<>>))
    IN IF startswith(lang_code, Str(<<"e", "s">>)) THEN "es"
       ELSE IF startswith(lang_code, Str(<<"e", "n">>)) THEN "en"
       ELSE IF Get(user_lang, user_id) \notin {None, ""} THEN Get(user_lang, user_id)
       ELSE "en"

\* the language t() resolves a template in; kwargs holds telegram_lang_code
\* and the substitutions
t_lang(user_lang, user_id, kwargs) ==
    LET lang_pref == Get(user_lang, user_id)
    IN IF lang_pref \notin {None, ""} THEN lang_pref
       ELSE LET lang_code == lower(OrEmpty(IF "telegram_lang_code" \in DOMAIN kwargs
                                           THEN kwargs.telegram_lang_code
                                           ELSE <<>>))
            IN IF startswith(lang_code, Str(<<"e", "s">>)) THEN "es"
               ELSE IF startswith(lang_code, Str(<<"e", "n">>)) THEN "en"
               ELSE "en"

\* a template lookup with no fallback to the English entry
template_without_fallback(registry, lang_pref, key) ==
    LET entry == IF key \in DOMAIN registry THEN registry[key] ELSE [none |-> <<>>]
    IN IF lang_pref \in DOMAIN entry THEN entry[lang_pref] ELSE <<>>

\* I18N.get(key, {}).get(lang_pref) or I18N.get(key, {}).get("en", "")
template(registry, lang_pref, key) ==
    LET entry == IF key \in DOMAIN registry THEN registry[key] ELSE [none |-> <<>>]
    IN IF lang_pref \in DOMAIN entry /\ entry[lang_pref] # <<>>
       THEN entry[lang_pref]
       ELSE IF "en" \in DOMAIN entry THEN entry["en"] ELSE <<>>

\* template.format(**kwargs) raises KeyError: a placeholder has no argument
format_raises(tmpl, kwargs) ==
    \E i \in DOMAIN tmpl : "arg" \in DOMAIN tmpl[i] /\ tmpl[i].arg \notin DOMAIN kwargs

\* t(user_id, key, **kwargs); registry is I18N and user_lang is USER_LANG as
\* they are when t is called
t(registry, user_lang, user_id, key, kwargs) ==
    CHOOSE text \in
        UNION {{format(template(registry, lang_pref, key), kw) :
                    lang_pref \in {t_lang(user_lang, user_id, kw)}} :
               kw \in {kwargs}} : TRUE

\* whether t(user_id, key, **kwargs) raises
t_raises(registry, user_lang, user_id, key, kwargs) ==
    \E kw \in {kwargs} : \E lang_pref \in {t_lang(user_lang, user_id, kw)} :
        format_raises(template(registry, lang_pref, key), kw)

get_user_lang(user_lang, user_id, telegram_lang_code) ==
    IF user_id \in DOMAIN user_lang THEN user_lang[user_id]
    ELSE LET code == lower(OrEmpty(telegram_lang_code))
         IN IF startswith(code, Str(<<"e", "s">>)) THEN "es"
            ELSE IF startswith(code, Str(<<"e", "n">>)) THEN "en"
            ELSE "en"

(***************************************************************************)
(* utils/asr_translate.py.  The outcome of each external capability        *)
(* (Lingua, langdetect, Whisper, MarianMT) is a parameter.                 *)
(***************************************************************************)
EN == Str(<<"e", "n">>)

ES == Str(<<"e", "s">>)

LANG_OTHER == Str(<<"o", "t", "h", "e", "r">>)

UNKNOWN == Str(<<"u", "n", "k", "n", "o", "w", "n">>)

\* max(confidences, key=lambda c: c.value): the first of the highest values
BestConfidence(confidences) ==
    confidences[CHOOSE i \in DOMAIN confidences :
                    /\ \A j \in DOMAIN confidences :
                           confidences[j].value <= confidences[i].value
                    /\ \A j \in 1..(i - 1) :
                           confidences[j].value < confidences[i].value]

\* a fallback that lets the error of langdetect through and returns the
\* code as langdetect gives it
detect_lang_fallback_unguarded(text, langdetect) ==
    IF langdetect.raises THEN Str(<<"r", "a", "i", "s", "e", "d">>)
    ELSE lower(OrEmpty(langdetect.code))

\* the except branch: langdetect = [raises, code]
detect_lang_fallback(text, langdetect) ==
    IF langdetect.raises THEN LANG_OTHER
    ELSE LET code == lower(OrEmpty(langdetect.code))
         IN IF startswith(code, EN) THEN EN
            ELSE IF startswith(code, ES) THEN ES
            ELSE LANG_OTHER

\* lingua = [raises, lang, confidences]: raises names the Lingua call that
\* raises ("none" when none does), lang is detect_language_of's result and
\* confidences is compute_language_confidence_values' result, with the
\* values in hundredths
detect_lang_text(text, lingua, langdetect) ==
    IF text = <<>> \/ strip(text) = <<>> THEN LANG_OTHER
    ELSE IF lingua.raises = "detect_language_of"
         THEN detect_lang_fallback(text, langdetect)
    ELSE IF lingua.lang = "ENGLISH" THEN EN
    ELSE IF lingua.lang = "SPANISH" THEN ES
    ELSE IF lingua.raises = "compute_language_confidence_values"
         THEN detect_lang_fallback(text, langdetect)
    ELSE IF lingua.confidences # <<>>
            /\ BestConfidence(lingua.confidences).value >= 70
            /\ BestConfidence(lingua.confidences).language = "ENGLISH"
         THEN EN
    ELSE IF lingua.confidences # <<>>
            /\ BestConfidence(lingua.confidences).value >= 70
            /\ BestConfidence(lingua.confidences).language = "SPANISH"
         THEN ES
    ELSE LANG_OTHER

\* the detectors detect_lang_text invokes, in order
detect_lang_detectors(text, lingua, langdetect) ==
    IF text = <<>> \/ strip(text) = <<>> THEN <<>>
    ELSE IF lingua.raises = "detect_language_of" THEN <<"lingua", "langdetect">>
    ELSE IF lingua.lang \in {"ENGLISH", "SPANISH"} THEN <<"lingua">>
    ELSE IF lingua.raises = "compute_language_confidence_values"
         THEN <<"lingua", "langdetect">>
    ELSE <<"lingua">>

\* " ".join(texts)
RECURSIVE Join(_)
Join(texts) ==
    IF texts = <<>> THEN <<>>
    ELSE IF Len(texts) = 1 THEN texts[1]
    ELSE Concat(Concat(texts[1], Rep(" ", 1)), Join(Tail(texts)))

\* the segments with a text, each stripped
RECURSIVE StrippedSegments(_)
StrippedSegments(segments) ==
    IF segments = <<>> THEN <<>>
    ELSE IF Head(segments) \in {NoneStr, <<>>} THEN StrippedSegments(Tail(segments))
    ELSE <<strip(Head(segments))>> \o StrippedSegments(Tail(segments))

\* transcribe_file, for a Whisper result whisper = [segments, language,
\* language_probability]: the texts of the segments, the language code (or
\* NoneStr) and the probability in hundredths (0 for a missing one)
transcribe_file(whisper) ==
    [text |-> strip(Join(StrippedSegments(whisper.segments))),
     lang |-> IF whisper.language \in {NoneStr, <<>>} THEN UNKNOWN
              ELSE whisper.language,
     prob |-> whisper.language_probability]

\* a translate_text that runs a model whatever the language code is
translate_invokes_model_any(detected_lang, text) == text # <<>>

\* whether translate_text runs a MarianMT model
translate_invokes_model(detected_lang, text) ==
    /\ text # <<>>
    /\ \/ startswith(lower(OrEmpty(detected_lang)), EN)
       \/ startswith(lower(OrEmpty(detected_lang)), ES)

\* a translate_text that returns an empty text when the model raises
translate_text_empty_on_failure(detected_lang, text, marian) ==
    LET code == lower(OrEmpty(detected_lang))
    IN IF text = <<>> THEN [translated |-> <<>>, target_lang |-> "same"]
       ELSE IF ~startswith(code, EN) /\ ~startswith(code, ES)
            THEN [translated |-> text, target_lang |-> "same"]
       ELSE IF marian.raises THEN [translated |-> <<>>, target_lang |-> "same"]
       ELSE [translated |-> strip(marian.out),
             target_lang |-> IF startswith(code, EN) THEN "es" ELSE "en"]

\* translate_text, for marian = [raises, out]: whether the tokenizer or the
\* model raises, and the decoded output otherwise
translate_text(detected_lang, text, marian) ==
    LET code == lower(OrEmpty(detected_lang))
    IN IF text = <<>> THEN [translated |-> <<>>, target_lang |-> "same"]
       ELSE IF ~startswith(code, EN) /\ ~startswith(code, ES)
            THEN [translated |-> text, target_lang |-> "same"]
       ELSE IF marian.raises THEN [translated |-> text, target_lang |-> "same"]
       ELSE [translated |-> strip(marian.out),
             target_lang |-> IF startswith(code, EN) THEN "es" ELSE "en"]

flag_for_lang(code) ==
    IF startswith(lower(OrEmpty(code)), EN) THEN "GB"
    ELSE IF startswith(lower(OrEmpty(code)), ES) THEN "ES"
    ELSE "globe"

(***************************************************************************)
(* utils/emotions.py.  Scores are in hundredths.                           *)
(***************************************************************************)
EMOTION_LABELS_ES ==
    [joy |-> "alegria", sadness |-> "tristeza", anger |-> "ira", neutral |-> "neutral"]

EMOTION_LABELS_EN ==
    [joy |-> "joy", sadness |-> "sadness", anger |-> "anger", neutral |-> "neutral"]

\* the scores in the order the pipeline gives them
SortedDescAsGiven(scores) == scores

\* sorted(scores, key=lambda x: x["score"], reverse=True): a stable sort, the
\* entry at i going after those that score more and those before it that
\* score as much
SortedDesc(scores) ==
    [k \in DOMAIN scores |->
        scores[CHOOSE i \in DOMAIN scores :
                   k = 1 + Cardinality({j \in DOMAIN scores :
                                           \/ scores[j].score > scores[i].score
                                           \/ /\ scores[j].score = scores[i].score
                                              /\ j < i})]]

\* [s for s in scores if s["score"] >= threshold]
AtLeast(scores, threshold) == SelectSeq(scores, LAMBDA s : s.score >= threshold)

\* detect_emotions, for the scores the pipeline gives the text (a list of
\* [label, score], one per category)
detect_emotions(text, top_k, threshold, scores) ==
    IF text = <<>> THEN <<>>
    ELSE LET sorted == SortedDesc(scores)
             picked == AtLeast(sorted, threshold)
             chosen == IF picked = <<>> THEN <<sorted[1]>> ELSE picked
         IN SubSeq(chosen, 1, Min(top_k, Len(chosen)))

\* format_emotions: the entries joined by ", ", each "label emoji (score)"
format_emotions(emolist, ui_lang) ==
    LET labels == IF ui_lang = "es" THEN EMOTION_LABELS_ES ELSE EMOTION_LABELS_EN
    IN [i \in DOMAIN emolist |->
           [text_label |-> IF emolist[i].label \in DOMAIN labels
                           THEN labels[emolist[i].label]
                           ELSE emolist[i].label,
            score |-> emolist[i].score]]

(***************************************************************************)
(* The bot (src/bot.py).  The handlers are coroutines of one event loop:   *)
(* a handler runs without interruption from one await to the next, and     *)
(* another handler can run only while it is suspended at an await.  One    *)
(* message update and one language callback are in flight at a time.       *)
(***************************************************************************)
Users == {1, 2}

\* user.language_code, the locale Telegram reports for a user: none for
\* user 1, Spanish for user 2
language_code(u) == IF u = 1 THEN NoneStr ELSE Str(<<"E", "S">>)

\* msg.text of a text update
TextMessages == {Str(<<"h", "i">>), Rep(" ", 2), Rep("a", TELEGRAM_MAX_MSG)}

LongText == Concat(Rep("a", TELEGRAM_MAX_MSG - 6), Concat(Rep(" ", 1), Rep("b", 10)))

\* what Whisper may return
Whispers ==
    [segments : {<<>>, <<Concat(Rep(" ", 1), Str(<<"h", "i">>))>>,
                 <<Rep("a", TELEGRAM_MAX_MSG - 6), Rep("b", 10)>>},
     language : {EN, ES, NoneStr},
     language_probability : {92}]

\* what MarianMT may do
Marians ==
    {[raises |-> TRUE, out |-> <<>>],
     [raises |-> FALSE, out |-> Str(<<" ", "h", "o", "l", "a">>)],
     [raises |-> FALSE, out |-> Rep(" ", 1)],
     [raises |-> FALSE, out |-> LongText]}

Score(l, v) == [label |-> l, score |-> v]

\* what the GoEmotions pipeline may do
Pipes ==
    {[raises |-> TRUE, scores |-> <<>>],
     [raises |-> FALSE,
      scores |-> <<Score("neutral", 5), Score("joy", 91), Score("sadness", 35)>>]}

Confidence(l, v) == [language |-> l, value |-> v]

\* what Lingua may do
Linguas ==
    {[raises |-> "detect_language_of", lang |-> "None", confidences |-> <<>>],
     [raises |-> "none", lang |-> "ENGLISH", confidences |-> <<>>],
     [raises |-> "none", lang |-> "SPANISH", confidences |-> <<>>],
     [raises |-> "none", lang |-> "None",
      confidences |-> <<Confidence("ENGLISH", 80), Confidence("SPANISH", 20)>>],
     [raises |-> "none", lang |-> "None",
      confidences |-> <<Confidence("SPANISH", 60), Confidence("ENGLISH", 40)>>],
     [raises |-> "compute_language_confidence_values", lang |-> "None",
      confidences |-> <<>>]}

\* what langdetect may do
Langdetects ==
    {[raises |-> TRUE, code |-> NoneStr],
     [raises |-> FALSE, code |-> ES],
     [raises |-> FALSE, code |-> Str(<<"f", "r">>)]}

\* callback data the pattern ^setlang:(es|en)$ lets through, split at ":"
SetlangData == {<<"setlang", "es">>, <<"setlang", "en">>}

\* header + body, the argument of a reply_text call
Msg(head, body) == [head |-> head, body |-> body]

NoMsg == Msg(<<>>, NoneStr)

NoUpdate == [kind |-> "none", user |-> 0, language_code |-> NoneStr, text |-> NoneStr]

NoLocals ==
    [text |-> NoneStr, lang |-> NoneStr, prob |-> 0, detected_lang |-> NoneStr,
     translated |-> NoneStr, target_lang |-> None, emotion_text |-> NoneStr,
     user_lang_ui |-> None, emo_str |-> <<>>, rest |-> <<>>]

NoCallback == [pc |-> "idle", user |-> 0, data |-> <<>>, pending |-> NoMsg]

Call(fn, arg) == [fn |-> fn, arg |-> arg]

\* the positions at which the message handler is suspended at an await
AwaitReply ==
    {"voice_notice", "voice_transcription", "voice_translation", "voice_skipped",
     "voice_emotion", "text_notice", "text_you_wrote", "text_translation",
     "text_emotion"}

Awaiting == AwaitReply \cup {"voice_get_file", "voice_download"}

\* the positions at which the handler has returned or its exception was logged
Terminal ==
    {"SENT", "REJECTED_UNSUPPORTED_LANGUAGE", "REJECTED_EMPTY_TRANSCRIPTION",
     "ERROR_LOGGED"}

\* the message handler is between two awaits: no other coroutine runs
Running == pc \notin {"idle"} \cup Awaiting \cup Terminal

BotInit ==
    /\ USER_LANG = <<>>
    /\ polling = TRUE
    /\ exception_logged = FALSE
    /\ pc = "idle"
    /\ update = NoUpdate
    /\ locals = NoLocals
    /\ pending = NoMsg
    /\ out = <<>>
    /\ calls = <<>>
    /\ raised_at = "none"
    /\ cb = NoCallback

\* an error handler that also forgets the language preferences
error_handler_drops_preferences ==
    /\ exception_logged' = TRUE
    /\ USER_LANG' = <<>>
    /\ UNCHANGED polling

\* BotApp.error_handler, registered by _register_handlers: the exception is
\* logged and the application goes on
error_handler ==
    /\ exception_logged' = TRUE
    /\ UNCHANGED <<USER_LANG, polling>>

\* an exception leaves the message handler, after the calls made, and reaches
\* error_handler
HandlerRaises(made) ==
    /\ pc' = "ERROR_LOGGED"
    /\ raised_at' = pc
    /\ pending' = NoMsg
    /\ calls' = calls \o made
    /\ error_handler
    /\ UNCHANGED <<update, locals, out, cb>>

\* the dispatcher can start a message handler
CanDispatch == polling /\ pc \in {"idle"} \cup Terminal

\* what a new message handler starts from
Dispatch(kind, u, text) ==
    /\ update' = [kind |-> kind, user |-> u, language_code |-> language_code(u),
                  text |-> text]
    /\ locals' = NoLocals
    /\ pending' = NoMsg
    /\ out' = <<>>
    /\ calls' = <<>>
    /\ raised_at' = "none"

kw(u) == [telegram_lang_code |-> u.language_code]

(***************************************************************************)
(* BotApp.on_voice                                                         *)
(***************************************************************************)
\* a voice update is dispatched: on_voice runs to await get_file
on_voice(u) ==
    /\ CanDispatch
    /\ Dispatch("voice", u, NoneStr)
    /\ pc' = "voice_get_file"
    /\ UNCHANGED <<USER_LANG, polling, exception_logged, cb>>
    /\ UNCHANGED othervars

\* context.bot.get_file returns or raises
VoiceGetFile(ok) ==
    /\ pc = "voice_get_file"
    /\ IF ok
       THEN /\ pc' = "voice_download"
            /\ UNCHANGED <<USER_LANG, polling, exception_logged, update, locals,
                           pending, out, calls, raised_at, cb>>
       ELSE HandlerRaises(<<>>)
    /\ UNCHANGED othervars

\* a download that, when it fails, has the file fetched again
VoiceDownloadRetries(ok) ==
    /\ pc = "voice_download"
    /\ pc' = IF ok THEN "voice_transcribe" ELSE "voice_get_file"
    /\ UNCHANGED <<USER_LANG, polling, exception_logged, update, locals,
                   pending, out, calls, raised_at, cb>>
    /\ UNCHANGED othervars

\* tg_file.download_to_drive returns or raises
VoiceDownload(ok) ==
    /\ pc = "voice_download"
    /\ IF ok
       THEN /\ pc' = "voice_transcribe"
            /\ UNCHANGED <<USER_LANG, polling, exception_logged, update, locals,
                           pending, out, calls, raised_at, cb>>
       ELSE HandlerRaises(<<>>)
    /\ UNCHANGED othervars

\* on_voice without its early return on an empty transcription
VoiceTranscribeNoEarlyExit(raises, whisper) ==
    /\ pc = "voice_transcribe"
    /\ IF raises THEN HandlerRaises(<<Call("transcribe_file", NoneStr)>>)
       ELSE LET r == transcribe_file(whisper)
            IN /\ locals' = [locals EXCEPT !.text = r.text, !.lang = r.lang,
                                           !.prob = r.prob]
               /\ calls' = Append(calls, Call("transcribe_file", NoneStr))
               /\ pending' = NoMsg
               /\ pc' = "voice_translate"
               /\ UNCHANGED <<USER_LANG, polling, exception_logged, update, out,
                              raised_at, cb>>
    /\ UNCHANGED othervars

\* transcribe_file and the empty-transcription exit (lines 150-157)
VoiceTranscribe(raises, whisper) ==
    /\ pc = "voice_transcribe"
    /\ IF raises THEN HandlerRaises(<<Call("transcribe_file", NoneStr)>>)
       ELSE LET r == transcribe_file(whisper)
            IN /\ locals' = [locals EXCEPT !.text = r.text, !.lang = r.lang,
                                           !.prob = r.prob]
               /\ calls' = Append(calls, Call("transcribe_file", NoneStr))
               /\ IF r.text = <<>>
                  THEN /\ pending' = Msg(t(I18N, USER_LANG, update.user,
                                           "no_transcription", kw(update)), <<>>)
                       /\ pc' = "voice_notice"
                  ELSE /\ pending' = NoMsg
                       /\ pc' = "voice_translate"
               /\ UNCHANGED <<USER_LANG, polling, exception_logged, update, out,
                              raised_at, cb>>
    /\ UNCHANGED othervars

\* the calls translate_text makes
TranslateCalls(detected_lang, text) ==
    <<Call("translate_text", text)>>
    \o (IF translate_invokes_model(detected_lang, text)
        THEN <<Call("MarianMT", text)>> ELSE <<>>)

\* get_user_lang and translate_text (lines 160-163)
VoiceTranslate(marian) ==
    /\ pc = "voice_translate"
    /\ LET r == translate_text(locals.lang, locals.text, marian)
       IN locals' = [locals EXCEPT
                        !.user_lang_ui = get_user_lang(USER_LANG, update.user,
                                                       update.language_code),
                        !.translated = r.translated,
                        !.target_lang = r.target_lang]
    /\ calls' = calls \o TranslateCalls(locals.lang, locals.text)
    /\ pc' = "voice_emotions"
    /\ UNCHANGED <<USER_LANG, polling, exception_logged, update, pending, out,
                   raised_at, cb>>
    /\ UNCHANGED othervars

\* a selection that takes the translation whenever one was made
voice_emotion_text_translated(text, translated, target_lang) ==
    IF target_lang = "same" THEN text
    ELSE IF translated # <<>> THEN translated ELSE text

\* the text on_voice gives detect_emotions (lines 166-174)
voice_emotion_text(text, translated, target_lang) ==
    IF target_lang = "es" THEN text
    ELSE IF target_lang = "en" THEN (IF translated # <<>> THEN translated ELSE text)
    ELSE text

\* emo_str (lines 178-179 and 248-249)
emo_str_of(emotions, user_lang_ui) ==
    IF emotions # <<>> THEN format_emotions(emotions, user_lang_ui)
    ELSE <<Lit("neutral #")>>

FormatConf(prob) == IF prob > 50 THEN "1" ELSE "0"

\* an on_voice that sends the transcription before it detects the emotions
VoiceEmotionsAfterSend(pipe) ==
    /\ pc = "voice_emotions"
    /\ \E emotion_text \in {voice_emotion_text(locals.text, locals.translated,
                                                 locals.target_lang)},
          header \in {t(I18N, USER_LANG, update.user, "transcription_header",
                        [flag |-> flag_for_lang(locals.lang), lang |-> locals.lang,
                         conf |-> FormatConf(locals.prob),
                         telegram_lang_code |-> update.language_code])},
          parts \in {split_telegram_message(locals.text, TELEGRAM_MAX_MSG)} :
       \E emotions \in {IF pipe.raises THEN <<>>
                         ELSE detect_emotions(emotion_text, 3, 30, pipe.scores)} :
          IF pipe.raises
          THEN /\ out' = Append(out, Msg(header, parts[1]))
               /\ pc' = "ERROR_LOGGED"
               /\ raised_at' = pc
               /\ pending' = NoMsg
               /\ calls' = Append(calls, Call("detect_emotions", emotion_text))
               /\ error_handler
               /\ UNCHANGED <<update, locals, cb>>
          ELSE /\ locals' = [locals EXCEPT
                                !.emotion_text = emotion_text,
                                !.emo_str = emo_str_of(emotions, locals.user_lang_ui),
                                !.rest = Tail(parts)]
               /\ calls' = Append(calls, Call("detect_emotions", emotion_text))
               /\ pending' = Msg(header, parts[1])
               /\ pc' = "voice_transcription"
               /\ UNCHANGED <<USER_LANG, polling, exception_logged, update, out,
                              raised_at, cb>>
    /\ UNCHANGED othervars

\* detect_emotions, the header, the split and the first reply_text call
\* (lines 166-191); each local is bound to its value, computed once
VoiceEmotions(pipe) ==
    /\ pc = "voice_emotions"
    /\ \E emotion_text \in {voice_emotion_text(locals.text, locals.translated,
                                                 locals.target_lang)},
          header \in {t(I18N, USER_LANG, update.user, "transcription_header",
                        [flag |-> flag_for_lang(locals.lang), lang |-> locals.lang,
                         conf |-> FormatConf(locals.prob),
                         telegram_lang_code |-> update.language_code])},
          parts \in {split_telegram_message(locals.text, TELEGRAM_MAX_MSG)} :
       \E emotions \in {IF pipe.raises THEN <<>>
                         ELSE detect_emotions(emotion_text, 3, 30, pipe.scores)} :
          IF (emotion_text # <<>> /\ pipe.raises) \/ parts = <<>>
          THEN HandlerRaises(<<Call("detect_emotions", emotion_text)>>)
          ELSE /\ locals' = [locals EXCEPT
                                !.emotion_text = emotion_text,
                                !.emo_str = emo_str_of(emotions, locals.user_lang_ui),
                                !.rest = Tail(parts)]
               /\ calls' = Append(calls, Call("detect_emotions", emotion_text))
               /\ pending' = Msg(header, parts[1])
               /\ pc' = "voice_transcription"
               /\ UNCHANGED <<USER_LANG, polling, exception_logged, update, out,
                              raised_at, cb>>
    /\ UNCHANGED othervars

(***************************************************************************)
(* BotApp.echo_text                                                        *)
(***************************************************************************)
\* a text update is dispatched: echo_text starts
echo_text(u, text) ==
    /\ CanDispatch
    /\ Dispatch("text", u, text)
    /\ pc' = "text_detect"
    /\ UNCHANGED <<USER_LANG, polling, exception_logged, cb>>
    /\ UNCHANGED othervars

\* echo_text without its early return on an unsupported language
TextDetectNoEarlyExit(lingua, langdetect) ==
    /\ pc = "text_detect"
    /\ locals' = [locals EXCEPT
                     !.text = update.text,
                     !.detected_lang = detect_lang_text(update.text, lingua, langdetect)]
    /\ pending' = NoMsg
    /\ pc' = "text_translate"
    /\ calls' = Append(calls, Call("detect_lang_text", update.text))
    /\ UNCHANGED <<USER_LANG, polling, exception_logged, update, out, raised_at, cb>>
    /\ UNCHANGED othervars

\* detect_lang_text and the unsupported-language exit (lines 225-232)
TextDetect(lingua, langdetect) ==
    /\ pc = "text_detect"
    /\ LET detected_lang == detect_lang_text(update.text, lingua, langdetect)
       IN /\ locals' = [locals EXCEPT !.text = update.text,
                                      !.detected_lang = detected_lang]
          /\ IF detected_lang \notin {EN, ES}
             THEN /\ pending' = Msg(<<Lit("no procesadas (se omite analisis).")>>, <<>>)
                  /\ pc' = "text_notice"
             ELSE /\ pending' = NoMsg
                  /\ pc' = "text_translate"
    /\ calls' = Append(calls, Call("detect_lang_text", update.text))
    /\ UNCHANGED <<USER_LANG, polling, exception_logged, update, out, raised_at, cb>>
    /\ UNCHANGED othervars

\* translate_text (line 235)
TextTranslate(marian) ==
    /\ pc = "text_translate"
    /\ LET r == translate_text(locals.detected_lang, locals.text, marian)
       IN locals' = [locals EXCEPT !.translated = r.translated,
                                   !.target_lang = r.target_lang]
    /\ calls' = calls \o TranslateCalls(locals.detected_lang, locals.text)
    /\ pc' = "text_emotions"
    /\ UNCHANGED <<USER_LANG, polling, exception_logged, update, pending, out,
                   raised_at, cb>>
    /\ UNCHANGED othervars

\* the text echo_text gives detect_emotions (lines 238-243)
text_emotion_text(text, translated, detected_lang) ==
    IF detected_lang = EN THEN text
    ELSE IF detected_lang = ES THEN (IF translated # <<>> THEN translated ELSE text)
    ELSE text

\* detect_emotions, the header and the first reply_text call (lines
\* 238-260); each local is bound to its value, computed once
TextEmotions(pipe) ==
    /\ pc = "text_emotions"
    /\ \E emotion_text \in {text_emotion_text(locals.text, locals.translated,
                                                locals.detected_lang)},
          user_lang_ui \in {get_user_lang(USER_LANG, update.user,
                                          update.language_code)},
          header \in {t(I18N, USER_LANG, update.user, "you_wrote",
                        [flag |-> IF locals.detected_lang = EN THEN "GB" ELSE "ES",
                         lang |-> locals.detected_lang,
                         telegram_lang_code |-> update.language_code])} :
       \E emotions \in {IF pipe.raises THEN <<>>
                         ELSE detect_emotions(emotion_text, 3, 30, pipe.scores)} :
          IF emotion_text # <<>> /\ pipe.raises
          THEN HandlerRaises(<<Call("detect_emotions", emotion_text)>>)
          ELSE /\ locals' = [locals EXCEPT
                                !.emotion_text = emotion_text,
                                !.user_lang_ui = user_lang_ui,
                                !.emo_str = emo_str_of(emotions, user_lang_ui)]
               /\ calls' = Append(calls, Call("detect_emotions", emotion_text))
               /\ pending' = Msg(header, locals.text)
               /\ pc' = "text_you_wrote"
               /\ UNCHANGED <<USER_LANG, polling, exception_logged, update, out,
                              raised_at, cb>>
    /\ UNCHANGED othervars

(***************************************************************************)
(* The replies: what a handler does when the reply_text it awaits returns, *)
(* up to its next await or its return.                                     *)
(***************************************************************************)
Step(p, m, r) == [pc |-> p, pending |-> m, rest |-> r]

\* the emotion summary (lines 217-220 and 276-279)
EmotionStep(p, user_lang, u, l) ==
    Step(p, Msg(t(I18N, user_lang, u.user, "emotion_header",
                  [emo |-> l.emo_str, telegram_lang_code |-> u.language_code]),
                <<>>),
         <<>>)

\* the flag of a translation header (lines 197 and 264)
flag_t(target_lang) ==
    IF target_lang = "en" THEN "GB" ELSE IF target_lang = "es" THEN "ES" ELSE "globe"

translation_header(user_lang, u, src, target_lang) ==
    t(I18N, user_lang, u.user, "translation_header",
      [flag |-> flag_t(target_lang), src |-> src, tgt |-> target_lang,
       telegram_lang_code |-> u.language_code])

\* step 5 deciding on the translated text alone
VoiceTranslationStepAnyTarget(user_lang, u, l) ==
    IF l.translated # <<>>
    THEN LET t_parts == split_telegram_message(l.translated, TELEGRAM_MAX_MSG)
         IN Step("voice_translation",
                 Msg(translation_header(user_lang, u, l.lang, l.target_lang),
                     t_parts[1]),
                 Tail(t_parts))
    ELSE Step("voice_skipped",
              Msg(t(I18N, user_lang, u.user, "translation_skipped", kw(u)), <<>>),
              <<>>)

\* on_voice, step 5 (lines 196-214)
VoiceTranslationStep(user_lang, u, l) ==
    IF l.target_lang # "same" /\ l.translated # <<>>
    THEN LET t_parts == split_telegram_message(l.translated, TELEGRAM_MAX_MSG)
         IN Step("voice_translation",
                 Msg(translation_header(user_lang, u, l.lang, l.target_lang),
                     t_parts[1]),
                 Tail(t_parts))
    ELSE Step("voice_skipped",
              Msg(t(I18N, user_lang, u.user, "translation_skipped", kw(u)), <<>>),
              <<>>)

\* step 2 sending an empty translation too
TextTranslationStepEmptyToo(user_lang, u, l) ==
    IF l.target_lang # "same"
    THEN Step("text_translation",
              Msg(translation_header(user_lang, u, l.detected_lang, l.target_lang),
                  l.translated),
              <<>>)
    ELSE EmotionStep("text_emotion", user_lang, u, l)

\* echo_text, step 2 (lines 263-273), or step 3 when it sends no translation
TextTranslationStep(user_lang, u, l) ==
    IF l.target_lang # "same" /\ l.translated # <<>>
    THEN Step("text_translation",
              Msg(translation_header(user_lang, u, l.detected_lang, l.target_lang),
                  l.translated),
              <<>>)
    ELSE EmotionStep("text_emotion", user_lang, u, l)

\* the handler at position p goes on after its reply_text returned
AfterReply(p, user_lang, u, l) ==
    CASE p = "voice_notice" -> Step("REJECTED_EMPTY_TRANSCRIPTION", NoMsg, <<>>)
      [] p = "text_notice" -> Step("REJECTED_UNSUPPORTED_LANGUAGE", NoMsg, <<>>)
      [] p \in {"voice_transcription", "voice_translation"} /\ l.rest # <<>> ->
            Step(p, Msg(<<>>, Head(l.rest)), Tail(l.rest))
      [] p = "voice_transcription" /\ l.rest = <<>> ->
            VoiceTranslationStep(user_lang, u, l)
      [] p \in {"voice_translation", "voice_skipped"} /\ l.rest = <<>> ->
            EmotionStep("voice_emotion", user_lang, u, l)
      [] p = "text_you_wrote" -> TextTranslationStep(user_lang, u, l)
      [] p = "text_translation" -> EmotionStep("text_emotion", user_lang, u, l)
      [] p \in {"voice_emotion", "text_emotion"} -> Step("SENT", NoMsg, <<>>)

\* msg.reply_text returns: the message is delivered and the handler goes on
ReplyReturns ==
    /\ pc \in AwaitReply
    /\ out' = Append(out, pending)
    /\ LET n == AfterReply(pc, USER_LANG, update, locals)
       IN /\ pc' = n.pc
          /\ pending' = n.pending
          /\ locals' = [locals EXCEPT !.rest = n.rest]
    /\ UNCHANGED <<USER_LANG, polling, exception_logged, update, calls, raised_at, cb>>
    /\ UNCHANGED othervars

\* msg.reply_text raises: the message is not delivered
ReplyRaises ==
    /\ pc \in AwaitReply
    /\ HandlerRaises(<<>>)
    /\ UNCHANGED othervars

(***************************************************************************)
(* BotApp.on_setlang                                                       *)
(***************************************************************************)
\* a callback query is dispatched: on_setlang runs to await query.answer
on_setlang(u, data) ==
    /\ polling
    /\ ~Running
    /\ cb.pc = "idle"
    /\ cb' = [pc |-> "answer", user |-> u, data |-> data, pending |-> NoMsg]
    /\ UNCHANGED <<USER_LANG, polling, exception_logged, pc, update, locals,
                   pending, out, calls, raised_at>>
    /\ UNCHANGED othervars

\* a write that sets the language of every user
SetItemForEveryone(user_lang, user_id, lang) == [x \in Users |-> lang]

\* a write that stores an empty preference
SetItemBlank(user_lang, user_id, lang) ==
    [x \in DOMAIN user_lang \cup {user_id} |->
        IF x = user_id THEN "" ELSE user_lang[x]]

\* USER_LANG[user_id] = lang
SetItem(user_lang, user_id, lang) ==
    [x \in DOMAIN user_lang \cup {user_id} |->
        IF x = user_id THEN lang ELSE user_lang[x]]

\* query.answer returns: the preference is stored and on_setlang runs to
\* await query.edit_message_text (lines 128-136)
SetlangAnswered ==
    /\ ~Running
    /\ cb.pc = "answer"
    /\ IF cb.data[1] = "setlang" /\ cb.data[2] \in {"es", "en"}
       THEN LET stored == SetItem(USER_LANG, cb.user, cb.data[2])
            IN /\ USER_LANG' = stored
               /\ cb' = [cb EXCEPT !.pc = "edit",
                                   !.pending = Msg(t(I18N, stored, cb.user, "lang_set",
                                                     [telegram_lang_code |->
                                                          language_code(cb.user)]),
                                                   <<>>)]
       ELSE /\ cb' = NoCallback
            /\ UNCHANGED USER_LANG
    /\ UNCHANGED <<polling, exception_logged, pc, update, locals, pending, out,
                   calls, raised_at>>
    /\ UNCHANGED othervars

\* query.edit_message_text returns: on_setlang returns
SetlangEdited ==
    /\ ~Running
    /\ cb.pc = "edit"
    /\ cb' = NoCallback
    /\ UNCHANGED <<USER_LANG, polling, exception_logged, pc, update, locals,
                   pending, out, calls, raised_at>>
    /\ UNCHANGED othervars

\* query.answer or query.edit_message_text raises
SetlangRaises ==
    /\ ~Running
    /\ cb.pc \in {"answer", "edit"}
    /\ cb' = NoCallback
    /\ error_handler
    /\ UNCHANGED <<pc, update, locals, pending, out, calls, raised_at>>
    /\ UNCHANGED othervars

Next ==
    \/ \E u \in Users : on_voice(u)
    \/ \E ok \in BOOLEAN : VoiceGetFile(ok)
    \/ \E ok \in BOOLEAN : VoiceDownload(ok)
    \/ \E raises \in BOOLEAN, whisper \in Whispers : VoiceTranscribe(raises, whisper)
    \/ \E marian \in Marians : VoiceTranslate(marian)
    \/ \E pipe \in Pipes : VoiceEmotions(pipe)
    \/ \E u \in Users, text \in TextMessages : echo_text(u, text)
    \/ \E lingua \in Linguas, langdetect \in Langdetects : TextDetect(lingua, langdetect)
    \/ \E marian \in Marians : TextTranslate(marian)
    \/ \E pipe \in Pipes : TextEmotions(pipe)
    \/ ReplyReturns
    \/ ReplyRaises
    \/ \E u \in Users, data \in SetlangData : on_setlang(u, data)
    \/ SetlangAnswered
    \/ SetlangEdited
    \/ SetlangRaises

Init == BotInit /\ SplitIdle /\ CallIdle

Spec == Init /\ [][Next]_vars

\* a step of the message handler in flight: the call or the await it is at
\* returns or raises
HandlerStep ==
    \/ \E ok \in BOOLEAN : VoiceGetFile(ok)
    \/ \E ok \in BOOLEAN : VoiceDownload(ok)
    \/ \E raises \in BOOLEAN, whisper \in Whispers : VoiceTranscribe(raises, whisper)
    \/ \E marian \in Marians : VoiceTranslate(marian)
    \/ \E pipe \in Pipes : VoiceEmotions(pipe)
    \/ \E lingua \in Linguas, langdetect \in Langdetects : TextDetect(lingua, langdetect)
    \/ \E marian \in Marians : TextTranslate(marian)
    \/ \E pipe \in Pipes : TextEmotions(pipe)
    \/ ReplyReturns
    \/ ReplyRaises

\* the event loop resumes a handler whose call or await can complete
FairSpec == Spec /\ WF_vars(HandlerStep)

SplitInit == BotInit /\ SplitCall /\ CallIdle

SplitSpec == SplitInit /\ [][SplitNext]_vars

\* the splitter is a sequential loop: it goes on until it returns
SplitFairSpec == SplitSpec /\ WF_vars(SplitNext)

(***************************************************************************)
(* The functions of src/utils called on their own: the arguments are drawn *)
(* from the sets below when the call starts, and one step runs the         *)
(* function to its return.                                                 *)
(***************************************************************************)
Returned(r) == [done |-> TRUE] @@ r

\* language codes given to translate_text
LanguageCodes ==
    {EN, ES, Str(<<"E", "N">>), Str(<<"e", "n", "-", "U", "S">>),
     Str(<<"E", "s", "-", "4", "1", "9">>), Str(<<"x", "x">>), Str(<<"e">>),
     Str(<<"n", "e">>), UNKNOWN, LANG_OTHER, <<>>, NoneStr}

\* texts given to translate_text
Texts == {<<>>, Str(<<"h", "e", "l", "l", "o">>), Rep(" ", 2), LongText}

\* translate_text(detected_lang, text) is called
TranslateCall ==
    /\ callee = "translate_text"
    /\ args \in [detected_lang : LanguageCodes, text : Texts, marian : Marians]
    /\ result = [done |-> FALSE]

\* translate_text returns: its value and how many times it ran a model
TranslateReturns ==
    /\ callee = "translate_text"
    /\ ~result.done
    /\ result' = Returned(
          [value |-> translate_text(args.detected_lang, args.text, args.marian),
           model_calls |-> Len(SelectSeq(TranslateCalls(args.detected_lang, args.text),
                                         LAMBDA c : c.fn = "MarianMT"))])
    /\ UNCHANGED <<callee, args>>
    /\ UNCHANGED <<botvars, splitvars>>

\* the categories of the model, in the order the pipeline lists them
Categories == <<"joy", "sadness", "anger", "neutral">>

\* scores of a category, in hundredths, around the threshold of 0.30
ScoreValues == {5, 29, 30, 31, 91}

\* what the pipeline may score a text
ScoreLists ==
    {[i \in DOMAIN Categories |-> Score(Categories[i], v[i])] :
        v \in [DOMAIN Categories -> ScoreValues]}

\* detect_emotions(text, top_k=3, threshold=0.30) is called
DetectEmotionsCall ==
    /\ callee = "detect_emotions"
    /\ args \in [text : {<<>>, Str(<<"h", "i">>)}, scores : ScoreLists]
    /\ result = [done |-> FALSE]

DetectEmotionsReturns ==
    /\ callee = "detect_emotions"
    /\ ~result.done
    /\ result' = Returned([value |-> detect_emotions(args.text, 3, 30, args.scores)])
    /\ UNCHANGED <<callee, args>>
    /\ UNCHANGED <<botvars, splitvars>>

\* registries given to t(): I18N, and one with keys that lack an entry
Registries ==
    {I18N,
     [only_en |-> [en |-> <<Lit("English only "), Arg("flag")>>],
      only_es |-> [es |-> <<Lit("Solo espanol")>>],
      empty_es |-> [en |-> <<Lit("English for empty")>>, es |-> <<>>],
      no_entry |-> [fr |-> <<Lit("Francais")>>]]}

\* keys given to t()
TemplateKeys ==
    {"welcome", "you_wrote", "only_en", "only_es", "empty_es", "no_entry", "missing"}

\* USER_LANG as on_setlang can leave it
Preferences == UNION {[S -> {"es", "en"}] : S \in SUBSET Users}

\* the keyword arguments given to t(): the locale hint or none, with or
\* without substitutions
Kwargs ==
    LET subs == [flag |-> "GB", lang |-> EN]
    IN {[telegram_lang_code |-> h] : h \in LanguageCodes}
       \cup {[telegram_lang_code |-> h] @@ subs : h \in LanguageCodes}
       \cup {subs}

\* t(user_id, key, **kwargs) is called
LocalizeCall ==
    /\ callee = "t"
    /\ args \in [registry : Registries, user_lang : Preferences, user_id : Users,
                  key : TemplateKeys, kwargs : Kwargs]
    /\ result = [done |-> FALSE]

\* t returns or raises
LocalizeReturns ==
    /\ callee = "t"
    /\ ~result.done
    /\ LET raised == t_raises(args.registry, args.user_lang, args.user_id, args.key,
                              args.kwargs)
       IN result' = Returned(
              [raised |-> raised,
               value |-> IF raised THEN <<>>
                         ELSE t(args.registry, args.user_lang, args.user_id, args.key,
                                args.kwargs)])
    /\ UNCHANGED <<callee, args>>
    /\ UNCHANGED <<botvars, splitvars>>

\* the choice of emotion_text of on_voice and echo_text starts, for a
\* language code, a text that passed the early exits and a model outcome
EmotionTextCall ==
    /\ callee = "emotion_text"
    /\ args \in [lang : LanguageCodes, text : Texts \ {<<>>, Rep(" ", 2)},
                  marian : Marians]
    /\ result = [done |-> FALSE]

\* translate_text and the choice of emotion_text, as on_voice makes it
\* (lines 163-174) and as echo_text makes it (lines 235-243)
EmotionTextReturns ==
    /\ callee = "emotion_text"
    /\ ~result.done
    /\ LET r == translate_text(args.lang, args.text, args.marian)
       IN result' = Returned(
              [translated |-> r.translated,
               target_lang |-> r.target_lang,
               on_voice |-> voice_emotion_text(args.text, r.translated, r.target_lang),
               echo_text |-> text_emotion_text(args.text, r.translated, args.lang)])
    /\ UNCHANGED <<callee, args>>
    /\ UNCHANGED <<botvars, splitvars>>

\* what Lingua may do, when detect_lang_text is called on its own
LinguaOutcomes ==
    Linguas \cup
    {[raises |-> "none", lang |-> "None", confidences |-> <<>>],
     [raises |-> "none", lang |-> "None",
      confidences |-> <<Confidence("ENGLISH", 30), Confidence("SPANISH", 70)>>],
     [raises |-> "none", lang |-> "None",
      confidences |-> <<Confidence("ENGLISH", 50), Confidence("SPANISH", 50)>>],
     [raises |-> "compute_language_confidence_values", lang |-> "SPANISH",
      confidences |-> <<>>]}

\* what langdetect may do, when detect_lang_text is called on its own
LangdetectOutcomes ==
    Langdetects \cup
    {[raises |-> FALSE, code |-> c] :
        c \in {EN, Str(<<"E", "N">>), Str(<<"z", "h", "-", "c", "n">>), <<>>, NoneStr}}

\* detect_lang_text(text) is called
DetectLangCall ==
    /\ callee = "detect_lang_text"
    /\ args \in [text : Texts \cup {Rep("\n", 1), Str(<<" ", "h", "i">>)},
                  lingua : LinguaOutcomes, langdetect : LangdetectOutcomes]
    /\ result = [done |-> FALSE]

DetectLangReturns ==
    /\ callee = "detect_lang_text"
    /\ ~result.done
    /\ result' = Returned(
          [value |-> detect_lang_text(args.text, args.lingua, args.langdetect),
           detectors |-> detect_lang_detectors(args.text, args.lingua,
                                               args.langdetect)])
    /\ UNCHANGED <<callee, args>>
    /\ UNCHANGED <<botvars, splitvars>>

CallInit ==
    /\ BotInit
    /\ SplitIdle
    /\ \/ TranslateCall
       \/ DetectEmotionsCall
       \/ LocalizeCall
       \/ EmotionTextCall
       \/ DetectLangCall

CallNext ==
    \/ TranslateReturns
    \/ DetectEmotionsReturns
    \/ LocalizeReturns
    \/ EmotionTextReturns
    \/ DetectLangReturns

CallSpec == CallInit /\ [][CallNext]_vars

(***************************************************************************)
(* What the claims read off a state.                                       *)
(***************************************************************************)
\* the template key of a message: the key one of whose templates starts as
\* the message does, "none" for a message with no header
KeyOf(m) ==
    IF m.head = <<>> THEN "none"
    ELSE CHOOSE k \in DOMAIN I18N :
             \E lang \in {"en", "es"} : I18N[k][lang][1] = m.head[1]

\* the language of the template a message starts with
LangOf(m) ==
    CHOOSE lang \in {"en", "es"} :
        \E k \in DOMAIN I18N : I18N[k][lang][1] = m.head[1]

\* the characters of the literal pieces of a header
RECURSIVE LitLen(_)
LitLen(head) ==
    IF head = <<>> THEN 0
    ELSE (IF "lit" \in DOMAIN Head(head) THEN Len(Head(head).lit) ELSE 0)
         + LitLen(Tail(head))

\* a length the message has at least: its literal pieces and its body
MinLen(m) == LitLen(m.head) + len(OrEmpty(m.body))

Keys(msgs) == [i \in DOMAIN msgs |-> KeyOf(msgs[i])]

Called(fn) == \E i \in DOMAIN calls : calls[i].fn = fn

\* the language the handler in flight resolved for its message
ResolvedLang == IF update.kind = "text" THEN locals.detected_lang ELSE locals.lang

(***************************************************************************)
(* C1: a text message classified 'other' gets exactly one reply_text call, *)
(* the notice, which is the only message delivered, and neither            *)
(* translate_text nor detect_emotions is called for it: the handler is     *)
(* awaiting the notice, has returned after it, or the notice's send raised.*)
(***************************************************************************)
OtherTextGetsOneNotice ==
    (update.kind = "text" /\ locals.detected_lang = LANG_OTHER) =>
        /\ ~Called("translate_text")
        /\ ~Called("MarianMT")
        /\ ~Called("detect_emotions")
        /\ CASE pc = "text_notice" ->
                    out = <<>> /\ KeyOf(pending) = "analysis_skipped"
             [] pc = "REJECTED_UNSUPPORTED_LANGUAGE" ->
                    /\ Len(out) = 1
                    /\ KeyOf(out[1]) = "analysis_skipped"
                    /\ out[1].body = <<>>
                    /\ pending = NoMsg
             [] pc = "ERROR_LOGGED" -> raised_at = "text_notice" /\ out = <<>>
             [] OTHER -> FALSE

\* a text the detectors classified 'other' was answered by the notice
OtherTextGetsOneNoticeWitness ==
    /\ update.kind = "text"
    /\ update.text = Str(<<"h", "i">>)
    /\ locals.detected_lang = LANG_OTHER
    /\ pc = "REJECTED_UNSUPPORTED_LANGUAGE"
    /\ Len(out) = 1

(***************************************************************************)
(* C2: a voice message whose transcription is empty gets exactly one       *)
(* reply_text call, the no_transcription notice, which is the only message *)
(* delivered, and neither translate_text nor detect_emotions is called.    *)
(***************************************************************************)
EmptyTranscriptionGetsOneNotice ==
    (update.kind = "voice" /\ locals.text = <<>>) =>
        /\ ~Called("translate_text")
        /\ ~Called("MarianMT")
        /\ ~Called("detect_emotions")
        /\ CASE pc = "voice_notice" ->
                    out = <<>> /\ KeyOf(pending) = "no_transcription"
             [] pc = "REJECTED_EMPTY_TRANSCRIPTION" ->
                    /\ Len(out) = 1
                    /\ KeyOf(out[1]) = "no_transcription"
                    /\ out[1].body = <<>>
                    /\ pending = NoMsg
             [] pc = "ERROR_LOGGED" -> raised_at = "voice_notice" /\ out = <<>>
             [] OTHER -> FALSE

\* an empty transcription was answered by the notice
EmptyTranscriptionGetsOneNoticeWitness ==
    /\ update.kind = "voice"
    /\ locals.text = <<>>
    /\ pc = "REJECTED_EMPTY_TRANSCRIPTION"
    /\ Len(out) = 1

(***************************************************************************)
(* C3: every string handed to reply_text, awaited or delivered, has length *)
(* <= TELEGRAM_MAX_MSG.                                                    *)
(***************************************************************************)
RepliesWithinLimit ==
    /\ pc \in AwaitReply => MinLen(pending) <= TELEGRAM_MAX_MSG
    /\ \A i \in DOMAIN out : MinLen(out[i]) <= TELEGRAM_MAX_MSG

(***************************************************************************)
(* C4: the messages of a voice update that was SENT are, in order, the     *)
(* transcription segments (the first with the transcription header), then  *)
(* the translation segments (the first with the translation header) or one *)
(* 'translation skipped' notice, then one emotion summary, the last.       *)
(***************************************************************************)
\* the order, the translation being sent exactly when translation_sent
VoiceOrder(translation_sent) ==
    LET n == Len(out)
        k == Keys(out)
    IN \E i \in 1..(n - 2) :
           /\ k[1] = "transcription_header"
           /\ \A x \in 1..i : out[x].body # <<>>
           /\ \A x \in 2..i : k[x] = "none"
           /\ IF translation_sent
              THEN /\ i + 1 <= n - 1
                   /\ k[i + 1] = "translation_header"
                   /\ \A x \in (i + 2)..(n - 1) : k[x] = "none"
                   /\ \A x \in (i + 1)..(n - 1) : out[x].body # <<>>
              ELSE /\ n = i + 2
                   /\ k[i + 1] = "translation_skipped"
                   /\ out[i + 1].body = <<>>
           /\ k[n] = "emotion_header"
           /\ out[n].body = <<>>

\* C4 as claimed: the translation is sent when target_lang is en or es, the
\* notice when target_lang is "same"
VoiceOrderByTarget ==
    (update.kind = "voice" /\ pc = "SENT") =>
        VoiceOrder(locals.target_lang \in {"en", "es"})

\* C4 as amended: the order is as claimed, the translation being sent when
\* target_lang is en or es and the translated text is not empty, the notice
\* when target_lang is "same" or the translated text is empty
VoiceOrderByTargetAndText ==
    (update.kind = "voice" /\ pc = "SENT") =>
        VoiceOrder(locals.target_lang \in {"en", "es"} /\ locals.translated # <<>>)

\* a translation into English that came out empty was answered by the notice
VoiceOrderByTargetAndTextWitness ==
    /\ update.kind = "voice"
    /\ pc = "SENT"
    /\ locals.target_lang = "en"
    /\ locals.translated = <<>>
    /\ Keys(out) = <<"transcription_header", "none", "translation_skipped",
                     "emotion_header">>

(***************************************************************************)
(* C5: the messages of a text update that was SENT are the 'you wrote'     *)
(* echo, then the translation if and only if target_lang is not "same" and *)
(* the translated text is not empty, then the emotion summary: two or      *)
(* three messages, the emotion summary the last.                           *)
(***************************************************************************)
TextOrder ==
    (update.kind = "text" /\ pc = "SENT") =>
        /\ Keys(out) =
               <<"you_wrote">>
               \o (IF locals.target_lang # "same" /\ locals.translated # <<>>
                   THEN <<"translation_header">> ELSE <<>>)
               \o <<"emotion_header">>
        /\ out[1].body = update.text
        /\ Len(out) = 3 => out[2].body = locals.translated
        /\ out[Len(out)].body = <<>>

\* a Spanish text whose translation came out empty got two messages
TextOrderWitness ==
    /\ update.kind = "text"
    /\ pc = "SENT"
    /\ locals.target_lang = "en"
    /\ locals.translated = <<>>
    /\ Len(out) = 2

(***************************************************************************)
(* C6: neither detect_emotions nor a translation model is called for a     *)
(* message whose resolved language is outside {en, es}.                    *)
(***************************************************************************)
\* C6 as claimed
OnlyEnEsAnalysed ==
    (Called("detect_emotions") \/ Called("MarianMT")) => ResolvedLang \in {EN, ES}

\* C6 as amended: no translation model is called for a message whose
\* resolved language is outside {en, es}, on either path, and on the text
\* path detect_emotions is not called for one either
OnlyEnEsTranslated ==
    /\ Called("MarianMT") => ResolvedLang \in {EN, ES}
    /\ (update.kind = "text" /\ Called("detect_emotions")) => ResolvedLang \in {EN, ES}

\* a voice message in an unknown language went through translate_text
\* without a model and was analysed and answered
OnlyEnEsTranslatedWitness ==
    /\ update.kind = "voice"
    /\ locals.lang = UNKNOWN
    /\ Called("translate_text")
    /\ Called("detect_emotions")
    /\ pc = "SENT"

(***************************************************************************)
(* C7: the notice of each early exit is rendered in the sender's UI        *)
(* language (stored preference, then locale hint, then English) as it is   *)
(* when the notice is handed to reply_text.                                *)
(***************************************************************************)
NoticesLocalized ==
    [][(pc' \in {"text_notice", "voice_notice"} /\ pc' # pc) =>
          LangOf(pending') = t_lang(USER_LANG', update'.user, kw(update'))]_vars

(***************************************************************************)
(* C8: an exception that leaves a message handler is logged by             *)
(* error_handler and goes no further: the application keeps polling, the   *)
(* dispatcher accepts the next message of any user, and neither that step  *)
(* nor any other step of a message handler changes USER_LANG.              *)
(***************************************************************************)
ErrorsAreSwallowed ==
    [][/\ (pc' = "ERROR_LOGGED" /\ pc # "ERROR_LOGGED") =>
              /\ exception_logged'
              /\ polling'
              /\ CanDispatch'
              /\ USER_LANG' = USER_LANG
       /\ <<pc, update, locals, pending, out, calls, raised_at>>'
              # <<pc, update, locals, pending, out, calls, raised_at>> =>
              USER_LANG' = USER_LANG]_vars

\* the emotion classifier raised for a user whose preference is stored, and
\* the preference is still there
ErrorsAreSwallowedWitness ==
    /\ pc = "ERROR_LOGGED"
    /\ raised_at \in {"voice_emotions", "text_emotions"}
    /\ update.user \in DOMAIN USER_LANG
    /\ polling

(***************************************************************************)
(* C9: when an unhandled error ends the handling of a message, no message  *)
(* has been delivered for it.                                              *)
(***************************************************************************)
\* the reply_text calls that follow another reply_text call
LaterSends ==
    {"voice_translation", "voice_skipped", "voice_emotion", "text_translation",
     "text_emotion"}

\* C9 as claimed
NoReplyOnError == pc = "ERROR_LOGGED" => out = <<>>

\* C9 as amended: no message has been delivered when the error was raised
\* before the first reply_text call (by get_file, the download, the
\* transcription or the emotion classification); when a reply_text call
\* that follows another one raises, the messages sent before it have been
\* delivered
NoReplyOnErrorBeforeSending ==
    pc = "ERROR_LOGGED" =>
        /\ raised_at \notin AwaitReply => out = <<>>
        /\ raised_at \in LaterSends => out # <<>>

\* the send of the emotion summary raised after the transcription and the
\* translation were delivered
NoReplyOnErrorBeforeSendingWitness ==
    /\ pc = "ERROR_LOGGED"
    /\ raised_at = "voice_emotion"
    /\ Len(out) >= 2

(***************************************************************************)
(* C10: every segment _split_telegram_message has produced, at any point   *)
(* of the loop and on return, has length <= limit, for every text and      *)
(* every limit >= 1.                                                       *)
(***************************************************************************)
SegmentsWithinLimit ==
    \A i \in DOMAIN s_parts : len(s_parts[i]) <= s_limit

\* a returned split of several segments, one of them a hard cut of exactly
\* limit characters
SegmentsWithinLimitWitness ==
    /\ s_pc = "returned"
    /\ Len(s_parts) >= 2
    /\ \E i \in DOMAIN s_parts : len(s_parts[i]) = s_limit
    /\ rfind(s_input, " ", 0, s_limit) = -1
    /\ rfind(s_input, "\n", 0, s_limit) = -1

(***************************************************************************)
(* C11: the segments _split_telegram_message returns, concatenated in      *)
(* order with whitespace re-inserted where a remainder was stripped,       *)
(* reproduce the text it was given.                                        *)
(***************************************************************************)
\* the number of leading whitespace characters of text
LeadingWhitespace(text) == len(text) - len(lstrip(text))

\* text is parts[1] w1 parts[2] w2 ... parts[n], each w a (possibly empty)
\* run of whitespace, followed by one more such run when trailing is TRUE
RECURSIVE Reassembles(_, _, _)
Reassembles(text, parts, trailing) ==
    IF parts = <<>> THEN text = <<>>
    ELSE /\ startswith(text, Head(parts))
         /\ LET rest == SliceFrom(text, len(Head(parts)))
            IN IF Len(parts) = 1
               THEN rest = <<>> \/ (trailing /\ lstrip(rest) = <<>>)
               ELSE \E k \in 0..LeadingWhitespace(rest) :
                        Reassembles(SliceFrom(rest, k), Tail(parts), trailing)

\* C11 as stated: the stripped whitespace is re-inserted between the segments
\* only
RoundTripBetweenSegments ==
    s_pc = "returned" => Reassembles(s_input, s_parts, FALSE)

\* C11 (amended): the segments reproduce the text once the stripped
\* whitespace is re-inserted after the segment it followed, which for a
\* remainder that was whitespace only is after the last segment
RoundTrip ==
    s_pc = "returned" => Reassembles(s_input, s_parts, TRUE)

\* a returned split of several segments that lost whitespace between two
\* segments and after the last one
RoundTripWitness ==
    /\ s_pc = "returned"
    /\ Len(s_parts) >= 2
    /\ Reassembles(s_input, s_parts, TRUE)
    /\ ~Reassembles(s_input, s_parts, FALSE)
    /\ \E i \in DOMAIN s_parts : s_parts[i] # <<>> /\ Head(s_parts[i]).ch = "a"

(***************************************************************************)
(* C12: _split_telegram_message terminates for every text and every        *)
(* limit >= 1: each loop iteration strictly shortens the remaining text,   *)
(* and the call returns.                                                   *)
(***************************************************************************)
SplitTerminates ==
    /\ [][s_parts' # s_parts /\ s_pc' = "loop" => len(s_text') < len(s_text)]_vars
    /\ <>(s_pc = "returned")

\* the loop has run on a text whose only breakpoint before limit is at
\* index 0, and on a text with no breakpoint at all
SplitTerminatesWitness ==
    /\ s_pc = "returned"
    /\ Len(s_parts) >= 2
    /\ \/ s_parts[1] = <<>>
       \/ /\ rfind(s_input, " ", 0, len(s_input)) = -1
          /\ rfind(s_input, "\n", 0, len(s_input)) = -1

(***************************************************************************)
(* C13: translate_text always returns a pair; the target is "same", with   *)
(* the text unchanged, exactly when the text is empty, the lower-cased     *)
(* code starts with neither "en" nor "es" (no model is run then), or the   *)
(* model raises; a model is run at most once; otherwise the target is      *)
(* "es" for en* and "en" for es*.                                          *)
(***************************************************************************)
\* the first two characters of the code are those of prefix, in any case
CodeStartsWith(code, prefix) ==
    code # NoneStr /\ startswith(lower(code), prefix)

Supported(code) == CodeStartsWith(code, EN) \/ CodeStartsWith(code, ES)

TranslateContract ==
    (callee = "translate_text" /\ result.done) =>
        LET passthrough == \/ args.text = <<>>
                           \/ ~Supported(args.detected_lang)
                           \/ args.marian.raises
        IN /\ DOMAIN result.value = {"translated", "target_lang"}
           /\ result.value.target_lang = "same" <=> passthrough
           /\ passthrough => result.value.translated = args.text
           /\ ~passthrough =>
                  result.value.target_lang =
                      (IF CodeStartsWith(args.detected_lang, EN) THEN "es" ELSE "en")
           /\ result.model_calls <= 1
           /\ (args.text = <<>> \/ ~Supported(args.detected_lang)) =>
                  result.model_calls = 0

\* translate_text returned the text as it was because the model raised on a
\* supported code
TranslateContractWitness ==
    /\ callee = "translate_text"
    /\ result.done
    /\ args.marian.raises
    /\ args.text # <<>>
    /\ Supported(args.detected_lang)
    /\ result.value = [translated |-> args.text, target_lang |-> "same"]
    /\ result.model_calls = 1

(***************************************************************************)
(* C14: for a non-empty text and any scores, detect_emotions(text, 3,      *)
(* 0.30) returns 1 to 3 categories with their scores, in descending order  *)
(* of score: the single highest-scoring category when none reaches the     *)
(* threshold, and otherwise categories that reach it, none of the omitted  *)
(* ones scoring higher than a returned one.                                *)
(***************************************************************************)
MaxScore(scores) ==
    CHOOSE v \in {scores[i].score : i \in DOMAIN scores} :
        \A i \in DOMAIN scores : scores[i].score <= v

TopEmotions ==
    (callee = "detect_emotions" /\ result.done /\ args.text # <<>>) =>
        LET r == result.value
            given == {args.scores[i] : i \in DOMAIN args.scores}
            returned == {r[i] : i \in DOMAIN r}
        IN /\ Len(r) \in 1..3
           /\ returned \subseteq given
           /\ Cardinality(returned) = Len(r)
           /\ \A i, j \in DOMAIN r : i < j => r[i].score >= r[j].score
           /\ IF \A x \in given : x.score < 30
              THEN Len(r) = 1 /\ r[1].score = MaxScore(args.scores)
              ELSE /\ \A x \in returned : x.score >= 30
                   /\ \A o \in given \ returned, x \in returned : o.score <= x.score

\* four categories reach the threshold, given in ascending order, and the
\* three highest are returned
TopEmotionsWitness ==
    /\ callee = "detect_emotions"
    /\ result.done
    /\ args.text # <<>>
    /\ \A i \in DOMAIN args.scores : args.scores[i].score >= 30
    /\ args.scores[1].score < args.scores[4].score
    /\ Len(result.value) = 3

(***************************************************************************)
(* C15: t() renders a key in the user's stored preference when there is    *)
(* one, whatever the locale hint; with none, in Spanish for a hint         *)
(* starting with "es" in any case, and in English for a hint starting      *)
(* with "en", any other hint, or no hint.                                  *)
(***************************************************************************)
\* the language the resolution order gives the call in args
OrderedLang ==
    IF args.user_id \in DOMAIN args.user_lang THEN args.user_lang[args.user_id]
    ELSE IF /\ "telegram_lang_code" \in DOMAIN args.kwargs
            /\ CodeStartsWith(args.kwargs.telegram_lang_code, ES)
         THEN "es"
    ELSE "en"

\* the key of the call has an English and a Spanish template
Bilingual ==
    /\ args.key \in DOMAIN args.registry
    /\ {"en", "es"} \subseteq DOMAIN args.registry[args.key]
    /\ args.registry[args.key].en # <<>>
    /\ args.registry[args.key].es # <<>>

ResolutionOrder ==
    (callee = "t" /\ result.done /\ Bilingual /\ ~result.raised) =>
        result.value = format(args.registry[args.key][OrderedLang], args.kwargs)

\* a user who chose English gets English under a Spanish hint
ResolutionOrderWitness ==
    /\ callee = "t"
    /\ result.done
    /\ ~result.raised
    /\ args.key = "welcome"
    /\ args.registry = I18N
    /\ args.user_id \in DOMAIN args.user_lang
    /\ args.user_lang[args.user_id] = "en"
    /\ "telegram_lang_code" \in DOMAIN args.kwargs
    /\ CodeStartsWith(args.kwargs.telegram_lang_code, ES)
    /\ result.value = I18N.welcome.en

(***************************************************************************)
(* C16: for a key with no template in the resolved language but with an    *)
(* English one, t() renders the English template; for a key with neither,  *)
(* t() returns the empty string and does not raise, whatever the           *)
(* substitutions.                                                          *)
(***************************************************************************)
\* the key of the call has a template in language l
HasTemplate(l) ==
    /\ args.key \in DOMAIN args.registry
    /\ l \in DOMAIN args.registry[args.key]
    /\ args.registry[args.key][l] # <<>>

TemplateFallback ==
    (callee = "t" /\ result.done) =>
        /\ (~HasTemplate(OrderedLang) /\ HasTemplate("en") /\ ~result.raised) =>
               /\ result.value = format(args.registry[args.key].en, args.kwargs)
               /\ result.value # <<>>
        /\ (~HasTemplate(OrderedLang) /\ ~HasTemplate("en")) =>
               ~result.raised /\ result.value = <<>>

\* a user who chose Spanish got the English template of a key that has no
\* Spanish one
TemplateFallbackWitness ==
    /\ callee = "t"
    /\ result.done
    /\ ~result.raised
    /\ args.key = "only_en"
    /\ args.key \in DOMAIN args.registry
    /\ OrderedLang = "es"
    /\ result.value # <<>>

(***************************************************************************)
(* C17: USER_LANG is last-write-wins and user-scoped: the step of          *)
(* on_setlang that stores a choice sets the entry of the callback's user   *)
(* to the chosen language and leaves every other entry as it was, and no   *)
(* other step of any handler changes USER_LANG, however the callbacks and  *)
(* the message handlers interleave.                                        *)
(***************************************************************************)
\* the step is the write of on_setlang (line 133)
SetlangWrites == cb.pc = "answer" /\ cb'.pc = "edit"

LastWriteWins ==
    [][IF SetlangWrites
       THEN /\ DOMAIN USER_LANG' = DOMAIN USER_LANG \cup {cb.user}
            /\ USER_LANG'[cb.user] = cb.data[2]
            /\ \A u \in DOMAIN USER_LANG \ {cb.user} : USER_LANG'[u] = USER_LANG[u]
       ELSE USER_LANG' = USER_LANG]_vars

\* user 1 has just chosen English while a message handler is suspended, and
\* user 2's earlier choice of Spanish is still stored
LastWriteWinsWitness ==
    /\ cb.pc = "edit"
    /\ cb.user = 1
    /\ DOMAIN USER_LANG = {1, 2}
    /\ USER_LANG[1] = "en"
    /\ USER_LANG[2] = "es"
    /\ pc \in AwaitReply

(***************************************************************************)
(* C18: the text given to detect_emotions is the original text for an      *)
(* English source, the translation (the original if the translation is     *)
(* empty) for a Spanish source, and the original text otherwise, for every *)
(* outcome of the translation; on_voice, which decides on target_lang, and *)
(* echo_text, which decides on the detected language, choose the same      *)
(* text for English and Spanish.                                           *)
(***************************************************************************)
\* the text the rule selects for the call in args
SelectedText ==
    IF CodeStartsWith(args.lang, EN) THEN args.text
    ELSE IF CodeStartsWith(args.lang, ES)
         THEN (IF result.translated # <<>> THEN result.translated ELSE args.text)
    ELSE args.text

EmotionInput ==
    (callee = "emotion_text" /\ result.done) =>
        /\ result.on_voice = SelectedText
        /\ args.lang \in {EN, ES} =>
               result.echo_text = SelectedText /\ result.echo_text = result.on_voice

\* Spanish speech was translated and the translation, not the
\* transcription, is what on_voice and echo_text select
EmotionInputWitness ==
    /\ callee = "emotion_text"
    /\ result.done
    /\ args.lang = ES
    /\ result.target_lang = "en"
    /\ result.translated # <<>>
    /\ result.translated # args.text
    /\ result.on_voice = result.translated
    /\ result.echo_text = result.translated

(***************************************************************************)
(* C19: detect_lang_text always returns "en", "es" or "other", whatever    *)
(* Lingua and langdetect do: "other" with no detector invoked for an empty *)
(* or whitespace-only text, langdetect consulted only when Lingua raises,  *)
(* and "other" when langdetect raises too.                                 *)
(***************************************************************************)
Blank(text) == \A i \in DOMAIN text : text[i].ch \in Whitespace

\* a call Lingua is asked to make raises: compute_language_confidence_values
\* is asked only when detect_language_of names no language
LinguaRaised ==
    \/ args.lingua.raises = "detect_language_of"
    \/ /\ args.lingua.raises = "compute_language_confidence_values"
       /\ args.lingua.lang \notin {"ENGLISH", "SPANISH"}

Consulted(detector) == \E i \in DOMAIN result.detectors : result.detectors[i] = detector

DetectLangTotal ==
    (callee = "detect_lang_text" /\ result.done) =>
        /\ result.value \in {EN, ES, LANG_OTHER}
        /\ Blank(args.text) => result.value = LANG_OTHER /\ result.detectors = <<>>
        /\ Consulted("langdetect") <=> (~Blank(args.text) /\ LinguaRaised)
        /\ (Consulted("langdetect") /\ args.langdetect.raises) =>
               result.value = LANG_OTHER

\* Lingua raised on a text and langdetect, consulted, raised as well
DetectLangTotalWitness ==
    /\ callee = "detect_lang_text"
    /\ result.done
    /\ ~Blank(args.text)
    /\ LinguaRaised
    /\ args.langdetect.raises
    /\ result.detectors = <<"lingua", "langdetect">>
    /\ result.value = LANG_OTHER

(***************************************************************************)
(* C20: a voice or text message whose handler has started eventually       *)
(* reaches SENT, one of the two REJECTED exits or ERROR_LOGGED, when the   *)
(* handler is scheduled fairly and every call returns or raises, whatever  *)
(* callbacks run meanwhile.                                                *)
(***************************************************************************)
InPipeline == pc \notin {"idle"} \cup Terminal

EveryMessageEnds == InPipeline ~> pc \in Terminal

\* a long voice transcription was sent in two chunks to a user who changed
\* language meanwhile
EveryMessageEndsWitness ==
    /\ pc = "SENT"
    /\ update.kind = "voice"
    /\ Len(out) >= 4
    /\ update.user \in DOMAIN USER_LANG

(***************************************************************************)
(* C21: every header of one reply is in the language the emotion labels    *)
(* of that reply were formatted in (the one get_user_lang returned), also   *)
(* when an on_setlang callback of the same user runs while the handler is   *)
(* suspended at an await.                                                   *)
(***************************************************************************)
\* the headers handed to reply_text so far for the update in flight
HeadersOfReply ==
    {m \in {out[i] : i \in DOMAIN out} \cup {pending} : m.head # <<>>}

SameUiLanguage ==
    locals.user_lang_ui # None =>
        \A m \in HeadersOfReply : LangOf(m) = locals.user_lang_ui

(***************************************************************************)
(* C22: no segment _split_telegram_message has produced, at any point of   *)
(* the loop and on return, is the empty string, for every text and every   *)
(* limit >= 1, a text whose only newline or space before the limit is its   *)
(* first character included.                                               *)
(***************************************************************************)
NoEmptySegment ==
    \A i \in DOMAIN s_parts : len(s_parts[i]) >= 1

(***************************************************************************)
(* C23: every value stored in USER_LANG is "es" or "en", and t(), which    *)
(* tests the stored value for truthiness, and get_user_lang(), which tests *)
(* the key for membership, resolve the same UI language for every user and *)
(* every locale hint.                                                      *)
(***************************************************************************)
SameResolution ==
    /\ \A u \in DOMAIN USER_LANG : USER_LANG[u] \in {"es", "en"}
    /\ \A u \in Users, hint \in LanguageCodes :
           t_lang(USER_LANG, u, [telegram_lang_code |-> hint])
               = get_user_lang(USER_LANG, u, hint)

\* user 2, whose locale is Spanish, has chosen English and got a whole reply
\* in it, while user 1 has no preference stored
SameResolutionWitness ==
    /\ pc = "SENT"
    /\ update.user = 2
    /\ USER_LANG = [x \in {2} |-> "en"]
    /\ locals.user_lang_ui = "en"
    /\ \A m \in HeadersOfReply : LangOf(m) = "en"
====
